---------------------------- MODULE Spec2Model ----------------------------
(***************************************************************************)
(* A model of ScandEval's benchmarking pipeline:                           *)
(*   src/src/scandeval/benchmark_dataset.py  (BenchmarkDataset)            *)
(*   src/src/scandeval/model_setups/hf.py    (HFModelSetup)                *)
(* One call of BenchmarkDataset.benchmark is a process whose position is   *)
(* pc; every collaborator call of the method is one action.                *)
(***************************************************************************)
EXTENDS Integers, Sequences, FiniteSets, TLC

VARIABLES
    benchmark_config,   \* self.benchmark_config: [testing]
    dataset_config,     \* self.dataset_config: [task, num_few_shot_examples]
    env,                \* what the collaborators answer: the hub, the model, the generators
    pc,                 \* position of the call of benchmark
    error,              \* the exception the call ended with ("none" while there is none)
    model_config,       \* ModelConfig of the resolved model
    model,              \* the loaded model
    metadata_dict,      \* result of _get_metadata
    num_iter,           \* benchmark's num_iter
    train, val, test,   \* _load_data's locals: the splits; test is the split that is bootstrapped
    tests,              \* the bootstrapped test splits
    prepared_train, prepared_val, prepared_tests,
    itr_idx,            \* loop index of _load_prepared_data's loop over tests
    selected,           \* few_shot_examples as selected, before random.shuffle
    preprocess_params,  \* the dict of keyword arguments handed to _preprocess_data
    random_state,       \* state of Python's global random generator
    itr,                \* the iterator handed to the evaluation strategy
    calls,              \* the collaborator calls made so far, in order
    previous,           \* what the call of benchmark before this one prepared
    compute,            \* a call of _compute_metrics: its position and locals
    loading             \* load_model: from_flax, ignore_mismatched_sizes, attempts

vars == <<benchmark_config, dataset_config, env, pc, error, model_config, model,
          metadata_dict, num_iter, train, val, test, tests, prepared_train,
          prepared_val, prepared_tests, itr_idx, selected, preprocess_params,
          random_state, itr, calls, previous, compute, loading>>

-----------------------------------------------------------------------------
(* Program constants *)

\* test.select(range(128))
TestingSize == 128
\* num_iter = 10 if not self.benchmark_config.testing else 5
NumIterFull == 10
NumIterTesting == 5
\* itr_seed = 4242 + itr_idx
BaseSeed == 4242

SPEED == "speed"

(* Bounds of the model *)

\* small splits have 0..MaxRows rows
MaxRows == 2
\* large validation splits have TestingSize-1 .. TestingSize+MaxOver rows
MaxOver == 1
\* the bootstrap generator is one of MaxRng+1 index streams, and the global
\* generator starts in one of MaxRng+1 states
MaxRng == 1
\* the shuffles are one of MaxSalt+1 seeded permutation families
MaxSalt == 1
\* few-shot train splits have 0..MaxTrain rows
MaxTrain == 3
\* num_few_shot_examples is 0..MaxShots
MaxShots == 3
\* a call of _compute_metrics has 0..MaxBatch examples
MaxBatch == 2
\* the loop of load_model is followed for MaxAttempts rounds
MaxAttempts == 4

None == "None"

\* a local name before its assignment, and the value of a call that raised
Unbound == <<>>
NoError == "none"

-----------------------------------------------------------------------------
(* Exceptions: the classes the two files raise or catch, with their bases.  *)

ExcBase(e) ==
    CASE e = "RepositoryNotFoundError" -> "HfHubHTTPError"
      [] e = "HfHubHTTPError" -> "HTTPError"
      [] e = "HTTPError" -> "RequestException"
      [] e = "ConnectionError" -> "RequestException"
      [] e = "RequestException" -> "OSError"
      [] e = "JSONDecodeError" -> "ValueError"
      [] e = "IndexError" -> "LookupError"
      [] e = "KeyError" -> "LookupError"
      [] OTHER -> "Exception"

RECURSIVE IsInstance(_, _)
IsInstance(e, cls) ==
    IF e = cls THEN TRUE
    ELSE IF e = "Exception" THEN FALSE
    ELSE IsInstance(ExcBase(e), cls)

-----------------------------------------------------------------------------
(* Datasets.  A split is [features, rows]; a row is [src, idx, label, v]    *)
(* where v maps each feature of the split to its content: 0 is a value of   *)
(* length zero, any other number a non-empty value.                         *)

TextFeatures == <<"tokens", "doc", "text">>

Split(features, rows) == [features |-> features, rows |-> rows]

NoSplit == Split({}, <<>>)

\* len(x[text_feature]) > 0
NonEmpty(x, text_feature) == x.v[text_feature] > 0

\* Dataset.filter(lambda x: len(x[text_feature]) > 0): a dataset without rows is
\* returned as it is; the lambda raises KeyError on a row without the column.
FilterRaises(ds, text_feature) ==
    ds.rows # <<>> /\ text_feature \notin ds.features

FilterNonEmpty(ds, text_feature) ==
    IF ds.rows = <<>> THEN ds
    ELSE Split(ds.features, SelectSeq(ds.rows, LAMBDA x : NonEmpty(x, text_feature)))

\* Dataset.select(range(n)): a dataset without rows is returned as it is; a range
\* that reaches past the last row raises IndexError.
SelectRangeRaises(ds, n) == ds.rows # <<>> /\ n > Len(ds.rows)

SelectRange(ds, n) ==
    IF ds.rows = <<>> THEN ds ELSE Split(ds.features, SubSeq(ds.rows, 1, n))

\* Dataset.select(indices), indices 0-based
SelectIndices(ds, indices) ==
    Split(ds.features, [j \in DOMAIN indices |-> ds.rows[indices[j] + 1]])

\* rng.integers(0, n, size=(num_iter, n)): the generator rng is one of a family
\* of index streams; entry (r, c) of the matrix, r and c 0-based.
RngIntegers(rng, n, r, c) == (rng + 7 * r + (rng + 1) * c) % n

BootstrapIndices(rng, n, r) == [j \in 1..n |-> RngIntegers(rng, n, r, j - 1)]


-----------------------------------------------------------------------------
(* BenchmarkDataset._load_data *)

\* What a call leaves behind when it raises exc
Raised(exc) ==
    [exc |-> exc, train |-> NoSplit, val |-> NoSplit, test |-> NoSplit, tests |-> <<>>]

\* Mutant of FetchError: the except clause is missing
FetchErrorUncaught(exc) == exc

\* try: load_dataset(...) except HfHubHTTPError: raise InvalidBenchmark
FetchError(exc) ==
    IF IsInstance(exc, "HfHubHTTPError") THEN "InvalidBenchmark" ELSE exc

\* {key: dataset_dict[key] for key in ["train", "val", "test"]}: the first key
\* that is missing raises KeyError; every other key is dropped.
MissingSplits(splits) == {"train", "val", "test"} \ DOMAIN splits

\* test = val  (marked TEMP in the source)
TestSplitUsed(splits) == splits["val"]

\* One round of the loop over ["tokens", "doc", "text"], on st = [exc, train, val, test]
FilterRound(st, text_feature) ==
    IF st.exc # NoError \/ text_feature \notin st.train.features THEN st
    ELSE IF FilterRaises(st.val, text_feature) \/ FilterRaises(st.test, text_feature)
         THEN [st EXCEPT !.exc = "KeyError"]
    ELSE [exc |-> NoError,
          train |-> FilterNonEmpty(st.train, text_feature),
          val |-> FilterNonEmpty(st.val, text_feature),
          test |-> FilterNonEmpty(st.test, text_feature)]

RemoveEmptyExamples(tr, va, te) ==
    FilterRound(
        FilterRound(
            FilterRound([exc |-> NoError, train |-> tr, val |-> va, test |-> te],
                        TextFeatures[1]),
            TextFeatures[2]),
        TextFeatures[3])

\* if self.benchmark_config.testing: test = test.select(range(128))
TruncateRaises(te, testing) == testing /\ SelectRangeRaises(te, TestingSize)

Truncate(te, testing) == IF testing THEN SelectRange(te, TestingSize) ELSE te

\* test_bidxs = rng.integers(0, len(test), size=(num_iter, len(test)))
\* tests = [test.select(test_bidxs[idx]) for idx in range(test_bidxs.shape[0])]
Bootstrap(te, k, rng) ==
    [r \in 1..k |-> SelectIndices(te, BootstrapIndices(rng, Len(te.rows), r - 1))]

LoadDataResult(fetched, testing, k, rng) ==
    IF fetched.kind = "raise" THEN Raised(FetchError(fetched.exc))
    ELSE IF fetched.kind # "DatasetDict" THEN Raised("InvalidBenchmark")
    ELSE IF MissingSplits(fetched.splits) # {} THEN Raised("KeyError")
    ELSE
        LET st == RemoveEmptyExamples(fetched.splits["train"], fetched.splits["val"],
                                      TestSplitUsed(fetched.splits))
        IN  IF st.exc # NoError THEN Raised(st.exc)
            ELSE IF TruncateRaises(st.test, testing) THEN Raised("IndexError")
            ELSE LET te == Truncate(st.test, testing)
                 IN  [exc |-> NoError, train |-> st.train, val |-> st.val,
                      test |-> te, tests |-> Bootstrap(te, k, rng)]

-----------------------------------------------------------------------------
(* HFModelSetup.model_exists and HFModelSetup.get_model_config *)

\* Mutant of HubFailure: the connection is not looked at
HubFailureAlwaysDown(internet) == "HuggingFaceHubDown"

\* if internet_connection_available(): raise HuggingFaceHubDown()
\* else: raise NoInternetConnection()
HubFailure(internet) ==
    IF internet THEN "HuggingFaceHubDown" ELSE "NoInternetConnection"

\* model_info is "ok" or the exception hf_api.model_info raises
ModelExistsResult(model_info, internet) ==
    IF model_info = "ok" THEN [exc |-> NoError, exists |-> TRUE]
    ELSE IF IsInstance(model_info, "RepositoryNotFoundError")
         THEN [exc |-> NoError, exists |-> FALSE]
    ELSE IF IsInstance(model_info, "RequestException")
         THEN [exc |-> HubFailure(internet), exists |-> FALSE]
    ELSE [exc |-> model_info, exists |-> FALSE]

\* Extract the framework, which defaults to PyTorch
FrameworkOf(tags) ==
    IF "pytorch" \in tags THEN "pytorch"
    ELSE IF "jax" \in tags THEN "jax"
    ELSE IF "spacy" \in tags THEN "InvalidBenchmark"
    ELSE IF "tf" \in tags \/ "tensorflow" \in tags \/ "keras" \in tags
         THEN "InvalidBenchmark"
    ELSE "pytorch"

\* listing is what api.list_models answers: [kind |-> "raise", exc] or
\* [kind |-> "models", found, tags, pipeline_tag]
GetModelConfigResult(listing, internet) ==
    IF listing.kind = "raise"
    THEN [exc |-> IF IsInstance(listing.exc, "RequestException")
                  THEN HubFailure(internet) ELSE listing.exc,
          config |-> Unbound]
    ELSE IF ~listing.found THEN [exc |-> "InvalidBenchmark", config |-> Unbound]
    ELSE IF FrameworkOf(listing.tags) = "InvalidBenchmark"
         THEN [exc |-> "InvalidBenchmark", config |-> Unbound]
    ELSE [exc |-> NoError,
          config |-> [framework |-> FrameworkOf(listing.tags),
                      task |-> IF listing.pipeline_tag = None THEN "fill-mask"
                               ELSE listing.pipeline_tag]]

-----------------------------------------------------------------------------
(* The generators.  A seeded shuffle is a permutation that its seed and the  *)
(* length decide: Permute(s, k) is the permutation of s with Lehmer code k.  *)

RemoveAt(s, i) == SubSeq(s, 1, i - 1) \o SubSeq(s, i + 1, Len(s))

RECURSIVE Permute(_, _)
Permute(s, k) ==
    IF Len(s) <= 1 THEN s
    ELSE LET i == (k % Len(s)) + 1
         IN  <<s[i]>> \o Permute(RemoveAt(s, i), k \div Len(s))

\* train.shuffle(seed=itr_seed): a generator of its own, seeded with itr_seed
DatasetShuffle(ds, seed, salt) == Split(ds.features, Permute(ds.rows, seed + salt))

\* Mutant of RandomSeed: the generator is not seeded
RandomSeedSkipped(state, a) == state

\* random.seed(a): the state of the global generator after the call
RandomSeed(state, a) == a

\* random.shuffle(x): the shuffled list, and the state the generator is left in
RandomShuffle(state, x, salt) == Permute(x, state + 2 * salt)

RandomAdvance(state, x) == state + Len(x) + 1

-----------------------------------------------------------------------------
(* BenchmarkDataset._load_prepared_data: the few-shot examples of one test   *)
(* iteration                                                                 *)

\* str.lower() on the label alphabet of the model
Lower(str) ==
    CASE str = "Positive" -> "positive"
      [] str = "NEGATIVE" -> "negative"
      [] str = "Neutral" -> "neutral"
      [] str = "B-PER" -> "b-per"
      [] str = "B-LOC" -> "b-loc"
      [] str = "I-PER" -> "i-per"
      [] str = "O" -> "o"
      [] str = "Positiv" -> "positiv"
      [] str = "POSITIV" -> "positiv"
      [] str = "Negativ" -> "negativ"
      [] OTHER -> str

\* label.lower().startswith("b-")
StartsWithB(str) == Lower(str) \in {"b-per", "b-loc"}

\* it.cycle(labels): its j-th element, j 0-based
Cycle(labels, j) == labels[(j % Len(labels)) + 1]

\* Mutant of RemoveUsed: the example stays in the pool
RemoveUsedNothing(pool, example, column) == pool

\* shuffled_train.filter(lambda x: x[column] != example[column])
RemoveUsed(pool, example, column) ==
    Split(pool.features, SelectSeq(pool.rows, LAMBDA x : x.v[column] # example.v[column]))

RECURSIVE SelectSequenceClassification(_, _, _, _)
\* while len(few_shot_examples) < num_few_shots: ...  (supertask sequence-classification)
\* pool is shuffled_train, acc is few_shot_examples
SelectSequenceClassification(pool, labels, num_few_shots, acc) ==
    IF Len(acc) >= num_few_shots THEN [exc |-> NoError, examples |-> acc]
    ELSE IF labels = <<>> THEN [exc |-> "StopIteration", examples |-> acc]
    ELSE
        LET label == Cycle(labels, Len(acc))
            found == SelectSeq(pool.rows, LAMBDA x : Lower(x.label) = Lower(label))
        IN  IF found = <<>> THEN [exc |-> "IndexError", examples |-> acc]
            ELSE IF "text" \notin pool.features THEN [exc |-> "KeyError", examples |-> acc]
            ELSE LET example == found[1]
                 IN  SelectSequenceClassification(RemoveUsed(pool, example, "text"), labels,
                                                  num_few_shots, Append(acc, example))

\* [label.lower() for label in labels if label.lower().startswith("b-")]
BeginLabels(labels) ==
    LET kept == SelectSeq(labels, LAMBDA l : StartsWithB(l))
    IN  [j \in DOMAIN kept |-> Lower(kept[j])]

RECURSIVE SelectNamedEntity(_, _, _, _)
\* the same loop for task named-entity-recognition; labels is BeginLabels(...)
SelectNamedEntity(pool, labels, num_few_shots, acc) ==
    IF Len(acc) >= num_few_shots THEN [exc |-> NoError, examples |-> acc]
    ELSE IF labels = <<>> THEN [exc |-> "StopIteration", examples |-> acc]
    ELSE
        LET label == Cycle(labels, Len(acc))
            found == SelectSeq(pool.rows,
                               LAMBDA x : label \in {Lower(x.label[t]) : t \in DOMAIN x.label})
        IN  IF found = <<>> THEN [exc |-> "IndexError", examples |-> acc]
            ELSE IF "doc" \notin pool.features THEN [exc |-> "KeyError", examples |-> acc]
            ELSE LET example == found[1]
                 IN  SelectNamedEntity(RemoveUsed(pool, example, "doc"), labels,
                                       num_few_shots, Append(acc, example))

\* shuffled_train.select(range(num_few_shots)).to_pandas().to_dict("records")
SelectFirst(pool, num_few_shots) ==
    IF SelectRangeRaises(pool, num_few_shots) THEN [exc |-> "IndexError", examples |-> <<>>]
    ELSE [exc |-> NoError, examples |-> SelectRange(pool, num_few_shots).rows]

\* the branch on supertask and task
SelectFewShot(shuffled_train, dcfg) ==
    IF dcfg.task.supertask = "sequence-classification"
    THEN SelectSequenceClassification(shuffled_train, dcfg.task.labels,
                                      dcfg.num_few_shot_examples, <<>>)
    ELSE IF dcfg.task.name = "named-entity-recognition"
    THEN SelectNamedEntity(shuffled_train, BeginLabels(dcfg.task.labels),
                           dcfg.num_few_shot_examples, <<>>)
    ELSE SelectFirst(shuffled_train, dcfg.num_few_shot_examples)

\* if model_config.task in ["text-generation", "conversational"]
WantsFewShot(task) == task \in {"text-generation", "conversational"}

-----------------------------------------------------------------------------
(* BenchmarkDataset._get_metadata.  An object is a record of its attributes: *)
(* hasattr(obj, a) is a \in DOMAIN obj.                                      *)

HasAttr(obj, a) == a \in DOMAIN obj

\* Mutant of GetMetadata: the tokenizer is asked before the model configuration
GetMetadataTokenizerFirst(mdl, tokenizer) ==
    [num_model_parameters |->
        IF mdl.is_pretrained THEN mdl.trainable_params
        ELSE IF HasAttr(mdl.config, "num_params") THEN mdl.config["num_params"]
        ELSE -1,
     max_sequence_length |->
        IF HasAttr(tokenizer, "model_max_length") THEN tokenizer["model_max_length"]
        ELSE IF HasAttr(mdl.config, "model_max_length") THEN mdl.config["model_max_length"]
        ELSE -1,
     vocabulary_size |->
        IF HasAttr(tokenizer, "vocab_size") THEN tokenizer["vocab_size"]
        ELSE IF HasAttr(mdl.config, "vocab_size") THEN mdl.config["vocab_size"]
        ELSE -1]

GetMetadata(mdl, tokenizer) ==
    [num_model_parameters |->
        IF HasAttr(mdl.config, "num_params") THEN mdl.config["num_params"]
        ELSE IF mdl.is_pretrained THEN mdl.trainable_params
        ELSE -1,
     max_sequence_length |->
        IF HasAttr(mdl.config, "model_max_length") THEN mdl.config["model_max_length"]
        ELSE IF HasAttr(tokenizer, "model_max_length") THEN tokenizer["model_max_length"]
        ELSE -1,
     vocabulary_size |->
        IF HasAttr(mdl.config, "vocab_size") THEN mdl.config["vocab_size"]
        ELSE IF HasAttr(tokenizer, "vocab_size") THEN tokenizer["vocab_size"]
        ELSE -1]

\* model_is_generative(model=model)
ModelIsGenerative(mdl) == mdl.generative

\* num_iter = 10 if not self.benchmark_config.testing else 5
NumIter(testing) == IF ~testing THEN NumIterFull ELSE NumIterTesting

-----------------------------------------------------------------------------
(* The call of benchmark *)

Fail(exc) == pc' = "failed" /\ error' = exc

\* self._preprocess_data(dataset, split=..., **preprocess_params): the abstract
\* method; what it returns records what it was given.
PreprocessData(ds, split, params) ==
    [split |-> split, size |-> Len(ds.rows),
     has_few_shot |-> HasAttr(params, "few_shot_examples"),
     few_shot_examples |-> IF HasAttr(params, "few_shot_examples")
                           THEN params["few_shot_examples"] ELSE <<>>]

\* no exception has left load_model
NoRaise == [step |-> None, exc |-> NoError, msg |-> None]

\* load_model has not been called
NotLoading ==
    [from_flax |-> FALSE, ignore_mismatched_sizes |-> FALSE, attempts |-> 0,
     raised |-> NoRaise]

\* _compute_metrics is not being called
NoCompute == [pc |-> None]

\* no call of benchmark came before
NoPrevious == [ran |-> FALSE, prepared_tests |-> <<>>]

\* a split that is not prepared yet
NotPrepared == [split |-> Unbound, size |-> 0, has_few_shot |-> FALSE, few_shot_examples |-> <<>>]

\* except ValueError: raise InvalidBenchmark(...)
PreparedError(exc) == IF IsInstance(exc, "ValueError") THEN "InvalidBenchmark" ELSE exc

\* get_model_config(model_id, benchmark_config), first step: HFModelSetup.model_exists
ModelExists ==
    /\ pc = "model_exists"
    /\ LET r == ModelExistsResult(env.model_info, env.internet)
       IN  IF r.exc # NoError THEN Fail(r.exc)
           ELSE /\ pc' = IF r.exists THEN "get_model_config" ELSE "local_model"
                /\ error' = error
    /\ calls' = Append(calls, "model_exists")
    /\ UNCHANGED <<loading, compute, previous, benchmark_config, dataset_config, env, model_config, model,
                   metadata_dict, num_iter, train, val, test, tests, prepared_train,
                   prepared_val, prepared_tests, itr_idx, selected, preprocess_params,
                   random_state, itr>>

\* get_model_config, second step: HFModelSetup.get_model_config
GetModelConfig ==
    /\ pc = "get_model_config"
    /\ LET r == GetModelConfigResult(env.listing, env.internet)
       IN  IF r.exc # NoError THEN Fail(r.exc) /\ model_config' = model_config
           ELSE pc' = "load_model" /\ error' = error /\ model_config' = r.config
    /\ calls' = Append(calls, "get_model_config")
    /\ UNCHANGED <<loading, compute, previous, benchmark_config, dataset_config, env, model,
                   metadata_dict, num_iter, train, val, test, tests, prepared_train,
                   prepared_val, prepared_tests, itr_idx, selected, preprocess_params,
                   random_state, itr>>

\* A model that is not on the hub: a local model has the task "unknown"
\* ("This happens when a local model is used, as we cannot fetch the model metadata")
LocalModelConfig ==
    /\ pc = "local_model"
    /\ IF env.local_model
       THEN /\ pc' = "load_model" /\ error' = error
            /\ model_config' = [framework |-> "pytorch", task |-> "unknown"]
       ELSE Fail("InvalidBenchmark") /\ model_config' = model_config
    /\ calls' = Append(calls, "local_model")
    /\ UNCHANGED <<loading, compute, previous, benchmark_config, dataset_config, env, model,
                   metadata_dict, num_iter, train, val, test, tests, prepared_train,
                   prepared_val, prepared_tests, itr_idx, selected, preprocess_params,
                   random_state, itr>>

\* what a collaborator of load_model answers: it returns, or raises exc with a
\* message of the kind msg
Returns == [exc |-> NoError, msg |-> None]

Raises(exc, msg) == [exc |-> exc, msg |-> msg]

\* HFModelSetup._handle_loading_exception: whatever the message, InvalidBenchmark
HandleLoadingException(ans) ==
    IF ans.msg = "checkpoint" THEN "InvalidBenchmark"
    ELSE IF ans.msg = "trust_remote_code" THEN "InvalidBenchmark"
    ELSE "InvalidBenchmark"

\* an exception leaves load_model: the exception the caller gets, and the
\* answer that caused it
LoadRaise(l, step, ans, exc) ==
    [pc |-> "failed", error |-> exc,
     loading |-> [l EXCEPT !.raised = [step |-> step, exc |-> ans.exc, msg |-> ans.msg]]]

LoadGoesOn(l, next) == [pc |-> next, error |-> NoError, loading |-> l]

\* Mutant of RetryMismatched: the flag is not set before the loop goes round
RetryMismatchedForgets(l) == l

\* ignore_mismatched_sizes = True; continue
RetryMismatched(l) == [l EXCEPT !.ignore_mismatched_sizes = TRUE]

\* from_flax = True; continue
RetryFromFlax(l) == [l EXCEPT !.from_flax = TRUE]

\* except (OSError, ValueError) as e, lines 296-305; other exceptions are not
\* caught
OuterHandler(l, step, ans) ==
    IF IsInstance(ans.exc, "OSError") \/ IsInstance(ans.exc, "ValueError")
    THEN IF ~l.from_flax /\ ans.msg = "from_flax"
         THEN LoadGoesOn(RetryFromFlax(l), "load_config")
         ELSE LoadRaise(l, step, ans, HandleLoadingException(ans))
    ELSE LoadRaise(l, step, ans, ans.exc)

\* AutoConfig.from_pretrained and the lookup of the model class, lines 231-263
AfterConfig(l, ans, class_found) ==
    IF ans.exc = NoError
    THEN IF class_found THEN LoadGoesOn(l, "load_weights")
         ELSE LoadRaise(l, "class", ans, "InvalidBenchmark")
    ELSE IF IsInstance(ans.exc, "KeyError") THEN LoadRaise(l, "config", ans, "InvalidBenchmark")
    ELSE OuterHandler(l, "config", ans)

\* model_cls_or_none.from_pretrained, lines 274-294
AfterWeights(l, ans) ==
    IF ans.exc = NoError THEN LoadGoesOn(l, "load_tokenizer")
    ELSE IF IsInstance(ans.exc, "KeyError")
    THEN IF ~l.ignore_mismatched_sizes THEN LoadGoesOn(RetryMismatched(l), "load_config")
         ELSE LoadRaise(l, "weights", ans, "InvalidBenchmark")
    ELSE OuterHandler(l, "weights", ans)

\* HFModelSetup._load_tokenizer: except (JSONDecodeError, OSError)
AfterTokenizer(l, ans) ==
    IF ans.exc = NoError THEN LoadGoesOn(l, "patch_task")
    ELSE IF IsInstance(ans.exc, "JSONDecodeError") \/ IsInstance(ans.exc, "OSError")
    THEN LoadRaise(l, "tokenizer", ans, "InvalidBenchmark")
    ELSE LoadRaise(l, "tokenizer", ans, ans.exc)

\* tokenizer, model = load_model(...): HFModelSetup.load_model up to the loop
LoadModel ==
    /\ pc = "load_model"
    /\ loading' = [from_flax |-> model_config.framework = "jax",
                   ignore_mismatched_sizes |-> FALSE, attempts |-> 0, raised |-> NoRaise]
    /\ pc' = "load_config"
    /\ calls' = Append(calls, "load_model")
    /\ UNCHANGED <<compute, previous, benchmark_config, dataset_config, env, error,
                   model_config, model,
                   metadata_dict, num_iter, train, val, test, tests, prepared_train,
                   prepared_val, prepared_tests, itr_idx, selected, preprocess_params,
                   random_state, itr>>

\* one round of the loop, up to the model class
LoadConfig ==
    /\ pc = "load_config"
    /\ loading.attempts < MaxAttempts
    /\ \E ans \in env.config_answers :
          LET r == AfterConfig([loading EXCEPT !.attempts = @ + 1], ans,
                               env.model_class_found)
          IN  /\ pc' = r.pc
              /\ loading' = r.loading
              /\ error' = IF r.pc = "failed" THEN r.error ELSE error
    /\ UNCHANGED <<compute, previous, benchmark_config, dataset_config, env,
                   model_config, model, calls,
                   metadata_dict, num_iter, train, val, test, tests, prepared_train,
                   prepared_val, prepared_tests, itr_idx, selected, preprocess_params,
                   random_state, itr>>

\* the rest of the round: the weights
LoadWeights ==
    /\ pc = "load_weights"
    /\ \E ans \in env.weights_answers :
          LET r == AfterWeights(loading, ans)
          IN  /\ pc' = r.pc
              /\ loading' = r.loading
              /\ error' = IF r.pc = "failed" THEN r.error ELSE error
              /\ model' = IF ans.exc = NoError THEN env.model ELSE model
    /\ UNCHANGED <<compute, previous, benchmark_config, dataset_config, env,
                   model_config, calls,
                   metadata_dict, num_iter, train, val, test, tests, prepared_train,
                   prepared_val, prepared_tests, itr_idx, selected, preprocess_params,
                   random_state, itr>>

\* after the loop: the tokenizer
LoadTokenizer ==
    /\ pc = "load_tokenizer"
    /\ \E ans \in env.tokenizer_answers :
          LET r == AfterTokenizer(loading, ans)
          IN  /\ pc' = r.pc
              /\ loading' = r.loading
              /\ error' = IF r.pc = "failed" THEN r.error ELSE error
    /\ UNCHANGED <<compute, previous, benchmark_config, dataset_config, env,
                   model_config, model, calls,
                   metadata_dict, num_iter, train, val, test, tests, prepared_train,
                   prepared_val, prepared_tests, itr_idx, selected, preprocess_params,
                   random_state, itr>>

\* if model_config.task == "unknown": ...
PatchedTask(task, mdl) ==
    IF task = "unknown"
    THEN IF ModelIsGenerative(mdl) THEN "text-generation" ELSE "fill-mask"
    ELSE task

\* Mutant of LoadsData: the data is loaded whatever the task
LoadsDataAlways(task_name) == TRUE

\* if self.dataset_config.task.name != SPEED: load and prepare the data
LoadsData(task_name) == task_name # SPEED

\* metadata_dict = self._get_metadata(...), num_iter, and the branch on the task
GetMetadataStep ==
    /\ pc = "get_metadata"
    /\ metadata_dict' = GetMetadata(model, env.tokenizer)
    /\ num_iter' = NumIter(benchmark_config.testing)
    /\ pc' = IF LoadsData(dataset_config.task.name) THEN "load_data" ELSE "itr"
    /\ calls' = Append(calls, "get_metadata")
    /\ UNCHANGED <<loading, compute, previous, benchmark_config, dataset_config, env, error, model_config, model,
                   train, val, test, tests, prepared_train,
                   prepared_val, prepared_tests, itr_idx, selected, preprocess_params,
                   random_state, itr>>

\* the patch of the task of a local model
PatchTask ==
    /\ pc = "patch_task"
    /\ model_config' = [model_config EXCEPT !.task = PatchedTask(@, model)]
    /\ pc' = "get_metadata"
    /\ UNCHANGED <<loading, compute, previous, benchmark_config, dataset_config, env, error, model,
                   metadata_dict, num_iter, train, val, test, tests, prepared_train,
                   prepared_val, prepared_tests, itr_idx, selected, preprocess_params,
                   random_state, itr, calls>>

\* train, val, tests = self._load_data(num_iter=num_iter, rng=rng)
LoadData ==
    /\ pc = "load_data"
    /\ LET r == LoadDataResult(env.dataset, benchmark_config.testing, num_iter, env.rng)
       IN  /\ IF r.exc # NoError THEN Fail(r.exc)
              ELSE pc' = "preprocess_train" /\ error' = error
           /\ train' = r.train /\ val' = r.val /\ test' = r.test /\ tests' = r.tests
    /\ calls' = Append(calls, "load_data")
    /\ UNCHANGED <<loading, compute, previous, benchmark_config, dataset_config, env, model_config, model,
                   metadata_dict, num_iter, prepared_train,
                   prepared_val, prepared_tests, itr_idx, selected, preprocess_params,
                   random_state, itr>>

\* _load_prepared_data: preprocess_params and prepared_train
PreprocessTrain ==
    /\ pc = "preprocess_train"
    /\ LET params == [model_config |-> model_config]
       IN  /\ preprocess_params' = params
           /\ IF env.preprocess_raises = "train"
              THEN Fail(PreparedError("ValueError")) /\ prepared_train' = prepared_train
              ELSE /\ pc' = "preprocess_val" /\ error' = error
                   /\ prepared_train' = PreprocessData(train, "train", params)
    /\ calls' = Append(calls, "preprocess_train")
    /\ UNCHANGED <<loading, compute, previous, benchmark_config, dataset_config, env, model_config, model,
                   metadata_dict, num_iter, train, val, test, tests,
                   prepared_val, prepared_tests, itr_idx, selected,
                   random_state, itr>>

\* _load_prepared_data: prepared_val
PreprocessVal ==
    /\ pc = "preprocess_val"
    /\ IF env.preprocess_raises = "val"
       THEN Fail(PreparedError("ValueError")) /\ prepared_val' = prepared_val
       ELSE /\ pc' = "preprocess_test" /\ error' = error
            /\ prepared_val' = PreprocessData(val, "val", preprocess_params)
    /\ itr_idx' = 0
    /\ prepared_tests' = <<>>
    /\ calls' = Append(calls, "preprocess_val")
    /\ UNCHANGED <<loading, compute, previous, benchmark_config, dataset_config, env, model_config, model,
                   metadata_dict, num_iter, train, val, test, tests, prepared_train,
                   selected, preprocess_params, random_state, itr>>

\* the few-shot examples of iteration itr_idx: [exc, selected, examples, state]
FewShotExamples(tr, dcfg, idx, state, salt) ==
    LET itr_seed == BaseSeed + idx
        shuffled_train == DatasetShuffle(tr, itr_seed, salt)
        sel == SelectFewShot(shuffled_train, dcfg)
        seeded == RandomSeed(state, itr_seed)
    IN  IF sel.exc # NoError
        THEN [exc |-> sel.exc, selected |-> sel.examples, examples |-> <<>>, state |-> state]
        ELSE [exc |-> NoError, selected |-> sel.examples,
              examples |-> RandomShuffle(seeded, sel.examples, salt),
              state |-> RandomAdvance(seeded, sel.examples)]

\* Mutant of SetFewShot: a list that is already in the dict is kept
SetFewShotOnce(params, few_shot_examples) ==
    IF HasAttr(params, "few_shot_examples") THEN params
    ELSE [model_config |-> params.model_config, few_shot_examples |-> few_shot_examples]

\* preprocess_params["few_shot_examples"] = few_shot_examples
SetFewShot(params, few_shot_examples) ==
    [model_config |-> params.model_config, few_shot_examples |-> few_shot_examples]

\* _load_prepared_data: one round of the loop over tests
PreprocessTest ==
    /\ pc = "preprocess_test"
    /\ itr_idx < Len(tests)
    /\ LET few == FewShotExamples(train, dataset_config, itr_idx, random_state, env.salt)
           params == IF WantsFewShot(model_config.task) /\ few.exc = NoError
                     THEN SetFewShot(preprocess_params, few.examples)
                     ELSE preprocess_params
           exc == IF WantsFewShot(model_config.task) /\ few.exc # NoError THEN few.exc
                  ELSE IF env.preprocess_raises = "test" THEN "ValueError"
                  ELSE NoError
       IN  /\ preprocess_params' = params
           /\ IF WantsFewShot(model_config.task)
              THEN selected' = few.selected /\ random_state' = few.state
              ELSE UNCHANGED <<selected, random_state>>
           /\ IF exc # NoError
              THEN Fail(PreparedError(exc)) /\ UNCHANGED <<prepared_tests, itr_idx>>
              ELSE /\ prepared_tests' =
                        Append(prepared_tests,
                               PreprocessData(tests[itr_idx + 1], "test", params))
                   /\ itr_idx' = itr_idx + 1
                   /\ pc' = IF itr_idx + 1 = Len(tests) THEN "itr" ELSE pc
                   /\ error' = error
    /\ calls' = Append(calls, "preprocess_test")
    /\ UNCHANGED <<loading, compute, previous, benchmark_config, dataset_config, env, model_config, model,
                   metadata_dict, num_iter, train, val, test, tests, prepared_train,
                   prepared_val, itr>>

\* itr = tqdm(iterable=range(num_iter), ...)
MakeItr ==
    /\ pc = "itr"
    /\ itr' = [i \in 1..num_iter |-> i - 1]
    /\ pc' = "dispatch"
    /\ UNCHANGED <<loading, compute, previous, benchmark_config, dataset_config, env, error, model_config, model,
                   metadata_dict, num_iter, train, val, test, tests, prepared_train,
                   prepared_val, prepared_tests, itr_idx, selected, preprocess_params,
                   random_state, calls>>

\* Mutant of Strategy: the model is asked before the task
StrategyModelFirst(task_name, mdl) ==
    IF ModelIsGenerative(mdl) THEN "generate"
    ELSE IF task_name = SPEED THEN "benchmark_speed"
    ELSE "finetune"

\* the branch that chooses the evaluation strategy
Strategy(task_name, mdl) ==
    IF task_name = SPEED THEN "benchmark_speed"
    ELSE IF ModelIsGenerative(mdl) THEN "generate"
    ELSE "finetune"

\* scores = benchmark_speed(itr=itr, ...)
BenchmarkSpeed ==
    /\ pc = "dispatch"
    /\ Strategy(dataset_config.task.name, model) = "benchmark_speed"
    /\ calls' = Append(calls, "benchmark_speed")
    /\ pc' = "log_scores"
    /\ UNCHANGED <<loading, compute, previous, benchmark_config, dataset_config, env, error, model_config, model,
                   metadata_dict, num_iter, train, val, test, tests, prepared_train,
                   prepared_val, prepared_tests, itr_idx, selected, preprocess_params,
                   random_state, itr>>

\* scores = self._generate(itr=itr, ...)
Generate ==
    /\ pc = "dispatch"
    /\ Strategy(dataset_config.task.name, model) = "generate"
    /\ calls' = Append(calls, "generate")
    /\ pc' = "log_scores"
    /\ UNCHANGED <<loading, compute, previous, benchmark_config, dataset_config, env, error, model_config, model,
                   metadata_dict, num_iter, train, val, test, tests, prepared_train,
                   prepared_val, prepared_tests, itr_idx, selected, preprocess_params,
                   random_state, itr>>

\* scores = self._finetune(itr=itr, ...)
Finetune ==
    /\ pc = "dispatch"
    /\ Strategy(dataset_config.task.name, model) = "finetune"
    /\ calls' = Append(calls, "finetune")
    /\ pc' = "log_scores"
    /\ UNCHANGED <<loading, compute, previous, benchmark_config, dataset_config, env, error, model_config, model,
                   metadata_dict, num_iter, train, val, test, tests, prepared_train,
                   prepared_val, prepared_tests, itr_idx, selected, preprocess_params,
                   random_state, itr>>

\* all_scores = log_scores(...); return all_scores, metadata_dict
LogScores ==
    /\ pc = "log_scores"
    /\ pc' = "done"
    /\ calls' = Append(calls, "log_scores")
    /\ UNCHANGED <<loading, compute, previous, benchmark_config, dataset_config, env, error, model_config, model,
                   metadata_dict, num_iter, train, val, test, tests, prepared_train,
                   prepared_val, prepared_tests, itr_idx, selected, preprocess_params,
                   random_state, itr>>

Next ==
    \/ ModelExists
    \/ GetModelConfig
    \/ LocalModelConfig
    \/ LoadModel
    \/ LoadConfig
    \/ LoadWeights
    \/ LoadTokenizer
    \/ PatchTask
    \/ GetMetadataStep
    \/ LoadData
    \/ PreprocessTrain
    \/ PreprocessVal
    \/ PreprocessTest
    \/ MakeItr
    \/ BenchmarkSpeed
    \/ Generate
    \/ Finetune
    \/ LogScores

-----------------------------------------------------------------------------
(* The inputs of a call: configurations, and what the collaborators answer.  *)

Row(src, idx, label, v) == [src |-> src, idx |-> idx, label |-> label, v |-> v]

\* the label of row i of a generated split: the labels alternate, and differ
\* in case from the labels of the task
RowLabel(i) == IF i % 2 = 1 THEN "NEGATIVE" ELSE "positive"

\* n rows of the split src with the columns features; the cells in empties
\* (pairs <<row, feature>>) have length zero
MkRows(src, n, features, empties) ==
    [i \in 1..n |->
        Row(src, i, RowLabel(i),
            [f \in features |-> IF <<i, f>> \in empties THEN 0 ELSE i])]

MkSplit(src, n, features, empties) == Split(features, MkRows(src, n, features, empties))

DatasetDict(splits) == [kind |-> "DatasetDict", splits |-> splits]

FetchRaises(exc) == [kind |-> "raise", exc |-> exc]

\* load_dataset answers something that is no DatasetDict
NotADatasetDict == [kind |-> "Dataset"]

ThreeSplits(tr, va, te) ==
    DatasetDict([k \in {"train", "val", "test"} |->
                    IF k = "train" THEN tr ELSE IF k = "val" THEN va ELSE te])

Listing(tags, pipeline_tag) ==
    [kind |-> "models", found |-> TRUE, tags |-> tags, pipeline_tag |-> pipeline_tag]

NoListing == [kind |-> "models", found |-> FALSE, tags |-> {}, pipeline_tag |-> None]

ListingRaises(exc) == [kind |-> "raise", exc |-> exc]

Model(generative) ==
    [generative |-> generative, is_pretrained |-> TRUE, trainable_params |-> 1000,
     config |-> [vocab_size |-> 50]]

Tokenizer == [model_max_length |-> 512, vocab_size |-> 50]

Task(name, supertask, labels) == [name |-> name, supertask |-> supertask, labels |-> labels]

SentimentTask ==
    Task("sentiment-classification", "sequence-classification", <<"negative", "positive">>)

NerTask ==
    Task("named-entity-recognition", "token-classification",
         <<"o", "b-per", "i-per", "b-loc">>)

QaTask == Task("question-answering", "question-answering", <<>>)

SpeedTask == Task(SPEED, "sequence-classification", <<>>)

\* a dataset of three small splits with one text column
SmallDataset ==
    ThreeSplits(MkSplit("train", 2, {"text"}, {}), MkSplit("val", 1, {"text"}, {}),
                MkSplit("test", 2, {"text"}, {}))

BaseEnv ==
    [model_info |-> "ok", listing |-> Listing({"pytorch"}, "fill-mask"),
     internet |-> TRUE, local_model |-> FALSE, model |-> Model(FALSE),
     tokenizer |-> Tokenizer, dataset |-> SmallDataset, rng |-> 0, salt |-> 0,
     preprocess_raises |-> "none", config_answers |-> {Returns},
     model_class_found |-> TRUE, weights_answers |-> {Returns},
     tokenizer_answers |-> {Returns}]

Scenario(testing, task, num_few_shot, e, state) ==
    [benchmark_config |-> [testing |-> testing],
     dataset_config |-> [task |-> task, num_few_shot_examples |-> num_few_shot],
     env |-> e, random_state |-> state]

\* Calls that between them take every branch of benchmark
CoreScenarios ==
    { Scenario(FALSE, SentimentTask, 1, BaseEnv, 0),
      Scenario(FALSE, SentimentTask, 1,
               [BaseEnv EXCEPT !.listing = Listing({"pytorch"}, "text-generation"),
                               !.model = Model(TRUE)], 0),
      Scenario(FALSE, SpeedTask, 1, BaseEnv, 0),
      Scenario(FALSE, SentimentTask, 1,
               [BaseEnv EXCEPT !.model_info = "RepositoryNotFoundError",
                               !.local_model = TRUE], 0) }

InitOf(scenarios) ==
    /\ \E s \in scenarios :
          /\ benchmark_config = s.benchmark_config
          /\ dataset_config = s.dataset_config
          /\ env = s.env
          /\ random_state = s.random_state
    /\ pc = "model_exists"
    /\ error = NoError
    /\ model_config = Unbound
    /\ model = Unbound
    /\ metadata_dict = Unbound
    /\ num_iter = 0
    /\ train = NoSplit /\ val = NoSplit /\ test = NoSplit
    /\ tests = <<>>
    /\ prepared_train = NotPrepared /\ prepared_val = NotPrepared /\ prepared_tests = <<>>
    /\ itr_idx = 0
    /\ selected = <<>>
    /\ preprocess_params = Unbound
    /\ itr = <<>>
    /\ calls = <<>>
    /\ previous = NoPrevious
    /\ compute = NoCompute
    /\ loading = NotLoading

(* Model resolution and dispatch: every answer of the hub, every kind of     *)
(* model and task.                                                           *)

ModelInfos == {"ok", "RepositoryNotFoundError", "HfHubHTTPError", "ConnectionError"}

Listings ==
    { Listing({"pytorch"}, "fill-mask"), Listing({"jax"}, None),
      Listing({"pytorch"}, "text-generation"), Listing({}, "conversational"),
      Listing({"spacy"}, "fill-mask"), Listing({"keras"}, "fill-mask"),
      NoListing, ListingRaises("ConnectionError"), ListingRaises("HfHubHTTPError") }

\* a dataset whose validation split has the TestingSize rows testing mode selects
FullDataset ==
    ThreeSplits(MkSplit("train", 2, {"text"}, {}),
                MkSplit("val", TestingSize, {"text"}, {}),
                MkSplit("test", 2, {"text"}, {}))

Fetches(testing) ==
    { IF testing THEN FullDataset ELSE SmallDataset,
      FetchRaises("HfHubHTTPError"), FetchRaises("ConnectionError") }

DispatchScenariosOf(testing) ==
    { Scenario(testing, task, 1,
               [BaseEnv EXCEPT !.model_info = mi, !.listing = li, !.internet = net,
                               !.local_model = (mi = "RepositoryNotFoundError"),
                               !.model = Model(gen), !.dataset = ds], 0) :
        task \in {SentimentTask, SpeedTask, QaTask},
        mi \in ModelInfos, li \in Listings, net \in BOOLEAN, gen \in BOOLEAN,
        ds \in Fetches(testing) }

DispatchScenarios == DispatchScenariosOf(TRUE) \cup DispatchScenariosOf(FALSE)

Init == InitOf(CoreScenarios \cup DispatchScenarios)

Spec == Init /\ [][Next]_vars

(* Data loading: splits of every small size, with and without empty cells,   *)
(* with equal and with different columns, and validation splits around the   *)
(* TestingSize rows that testing mode selects.                               *)

\* the columns of the train, val and test split
FeatureCombos ==
    { <<{"text"}, {"text"}, {"text"}>>,
      <<{"tokens", "doc"}, {"tokens", "doc"}, {"tokens", "doc"}>>,
      <<{"text"}, {"tokens", "text"}, {"tokens", "text"}>>,
      <<{"tokens", "text"}, {"text"}, {"text"}>>,
      <<{}, {}, {}>> }

\* the first of tokens, doc, text among features
PrimaryFeature(features) ==
    IF "tokens" \in features THEN "tokens"
    ELSE IF "doc" \in features THEN "doc"
    ELSE "text"

\* the empty cells of a split: the rows in positions, in the primary column
\* only or in every column
EmptyCells(positions, features, every) ==
    { <<i, f>> : i \in positions,
                 f \in IF every THEN features ELSE features \cap {PrimaryFeature(features)} }

SmallDatasets ==
    { ThreeSplits(MkSplit("train", nt, fc[1], EmptyCells(pos, fc[1], every)),
                  MkSplit("val", nv, fc[2], EmptyCells(pos, fc[2], every)),
                  MkSplit("test", ne, fc[3], EmptyCells(pos, fc[3], every))) :
        fc \in FeatureCombos, nt \in {0, MaxRows}, nv \in 0..MaxRows, ne \in 0..MaxRows,
        pos \in SUBSET {1, 2}, every \in BOOLEAN }

LargeDatasets ==
    { ThreeSplits(MkSplit("train", 1, {"text"}, {}),
                  MkSplit("val", nv, {"text"}, EmptyCells(pos, {"text"}, TRUE)),
                  MkSplit("test", ne, {"text"}, EmptyCells(pos, {"text"}, TRUE))) :
        nv \in (TestingSize - 1)..(TestingSize + MaxOver), ne \in {1, TestingSize + 1},
        pos \in SUBSET {1, TestingSize} }

\* SmallDataset without the split key, and with a fourth split
Without(key) ==
    DatasetDict([k \in {"train", "val", "test"} \ {key} |-> SmallDataset.splits[k]])

WithExtraSplit ==
    DatasetDict([k \in {"train", "val", "test", "validation"} |->
                    IF k = "validation" THEN MkSplit("validation", 1, {"text"}, {})
                    ELSE SmallDataset.splits[k]])

OddFetches ==
    { FetchRaises("HfHubHTTPError"), FetchRaises("RepositoryNotFoundError"),
      FetchRaises("ConnectionError"), NotADatasetDict,
      Without("train"), Without("val"), Without("test"), WithExtraSplit }

DataScenarios ==
    { Scenario(testing, SentimentTask, 1, [BaseEnv EXCEPT !.dataset = ds, !.rng = rng], 0) :
        testing \in BOOLEAN, rng \in 0..MaxRng,
        ds \in SmallDatasets \cup LargeDatasets \cup OddFetches }

InitData == InitOf(CoreScenarios \cup DataScenarios)

SpecData == InitData /\ [][Next]_vars

(* Few-shot selection: generative models on train splits of every small     *)
(* make-up, and a second call of benchmark on the same inputs.              *)

\* a task with three labels
TopicTask ==
    Task("topic-classification", "sequence-classification",
         <<"negative", "neutral", "positive">>)

\* the rows a train split is made of: label and text
RowKinds ==
    <<[label |-> "NEGATIVE", text |-> 1], [label |-> "NEGATIVE", text |-> 2],
      [label |-> "Neutral", text |-> 1], [label |-> "Neutral", text |-> 2],
      [label |-> "Neutral", text |-> 3],
      [label |-> "positive", text |-> 2], [label |-> "positive", text |-> 3]>>

\* the train split whose i-th row is of the kind ks[i]
TrainOfKinds(ks) ==
    Split({"text"},
          [i \in DOMAIN ks |-> Row("train", i, RowKinds[ks[i]].label,
                                   [f \in {"text"} |-> RowKinds[ks[i]].text])])

\* the make-ups of a train split of at most MaxTrain rows; the order of the
\* rows is left to the shuffle
KindSequences ==
    UNION { { ks \in [1..n -> DOMAIN RowKinds] : \A i \in 1..(n - 1) : ks[i] <= ks[i + 1] } :
              n \in 0..MaxTrain }

FewShotTrains == { TrainOfKinds(ks) : ks \in KindSequences }

\* a train split of documents with their tags
NerTrain ==
    Split({"tokens", "doc"},
          <<Row("train", 1, <<"B-PER", "O">>, [f \in {"tokens", "doc"} |-> 1]),
            Row("train", 2, <<"O", "I-PER">>, [f \in {"tokens", "doc"} |-> 2]),
            Row("train", 3, <<"B-LOC">>, [f \in {"tokens", "doc"} |-> 3]),
            Row("train", 4, <<"b-loc", "B-PER">>, [f \in {"tokens", "doc"} |-> 1])>>)

\* a model of the hub that generates, with the pipeline tag tag
GenerativeEnv(tag, tr, salt) ==
    [BaseEnv EXCEPT !.listing = Listing({"pytorch"}, tag), !.model = Model(TRUE),
                    !.salt = salt,
                    !.dataset = ThreeSplits(tr, MkSplit("val", 1, tr.features, {}),
                                            MkSplit("test", 1, tr.features, {}))]

SelectionScenarios ==
    { Scenario(FALSE, task, k, GenerativeEnv("text-generation", tr, 0), 0) :
        task \in {SentimentTask, TopicTask}, k \in 0..MaxShots, tr \in FewShotTrains }

GeneratorScenarios ==
    { Scenario(FALSE, tt[1], k, GenerativeEnv(tag, tt[2], salt), state) :
        tt \in { <<SentimentTask, MkSplit("train", MaxTrain, {"text"}, {})>>,
                 <<NerTask, NerTrain>>,
                 <<QaTask, MkSplit("train", MaxTrain, {"text"}, {})>> },
        k \in 1..2, tag \in {"text-generation", "conversational", "fill-mask"},
        salt \in 0..MaxSalt, state \in 0..MaxRng }

InitFewShot == InitOf(CoreScenarios \cup SelectionScenarios \cup GeneratorScenarios)

\* BenchmarkDataset.__call__ once more, on the same object with the same
\* arguments: in the same process, which keeps the state of the global
\* generator, or in a new one, where that state is anything
Rerun ==
    /\ pc \in {"done", "failed"}
    /\ ~previous.ran
    /\ previous' = [ran |-> TRUE, prepared_tests |-> prepared_tests]
    /\ random_state' \in {random_state} \cup 0..MaxRng
    /\ pc' = "model_exists"
    /\ error' = NoError
    /\ model_config' = Unbound
    /\ model' = Unbound
    /\ metadata_dict' = Unbound
    /\ num_iter' = 0
    /\ train' = NoSplit /\ val' = NoSplit /\ test' = NoSplit
    /\ tests' = <<>>
    /\ prepared_train' = NotPrepared /\ prepared_val' = NotPrepared
    /\ prepared_tests' = <<>>
    /\ itr_idx' = 0
    /\ selected' = <<>>
    /\ preprocess_params' = Unbound
    /\ itr' = <<>>
    /\ calls' = <<>>
    /\ loading' = NotLoading
    /\ UNCHANGED <<benchmark_config, dataset_config, env, compute>>

NextFewShot == Next \/ Rerun

SpecFewShot == InitFewShot /\ [][NextFewShot]_vars

-----------------------------------------------------------------------------
(* BenchmarkDataset._compute_metrics.  A prediction or label carries its      *)
(* Python type; model outputs are [dtype, ndim, data], data being score       *)
(* vectors when ndim = 2 and single values otherwise.                         *)

Str(s) == [type |-> "str", s |-> s, n |-> 0]

Num(n) == [type |-> "int", s |-> "", n |-> n]

\* isinstance(pred, str)
IsStr(x) == x.type = "str"

\* [np.float16, np.float32, np.float64]
FloatDTypes == {"float16", "float32", "float64"}

\* the largest entry of a score vector
MaxScore(v) == CHOOSE m \in {v[i] : i \in DOMAIN v} : \A i \in DOMAIN v : v[i] <= m

\* Mutant of ArgMax: the position counted from 1
ArgMaxOneBased(v) == CHOOSE i \in DOMAIN v : v[i] = MaxScore(v)
                                              /\ \A j \in 1..(i - 1) : v[j] # MaxScore(v)

\* argmax(axis=-1) of one score vector: the first index of its maximum, from 0
ArgMax(v) ==
    (CHOOSE i \in DOMAIN v : v[i] = MaxScore(v) /\ \A j \in 1..(i - 1) : v[j] # MaxScore(v)) - 1

\* lines 622-626: predictions
Predictions(model_outputs) ==
    IF model_outputs.dtype \in FloatDTypes
    THEN IF model_outputs.ndim = 1
         THEN [exc |-> IF model_outputs.data = <<>> THEN "ValueError" ELSE "TypeError",
               predictions |-> <<>>]
         ELSE [exc |-> NoError,
               predictions |-> [i \in DOMAIN model_outputs.data |->
                                   Num(ArgMax(model_outputs.data[i]))]]
    ELSE [exc |-> NoError, predictions |-> model_outputs.data]

\* {prompt_label: label for label, prompt_label in prompt_label_mapping.items()}
\* the mapping is the sequence of its items <<label, prompt_label>>; of two items
\* with one prompt label the later one stays
PromptLabelToLabelMapping(prompt_label_mapping) ==
    [pl \in {prompt_label_mapping[i][2] : i \in DOMAIN prompt_label_mapping} |->
        prompt_label_mapping[
            CHOOSE i \in DOMAIN prompt_label_mapping :
                /\ prompt_label_mapping[i][2] = pl
                /\ \A j \in DOMAIN prompt_label_mapping :
                      j > i => prompt_label_mapping[j][2] # pl][1]]

\* id2label.index(label), from 0
Index(id2label, label) ==
    (CHOOSE i \in DOMAIN id2label :
        id2label[i] = label /\ \A j \in 1..(i - 1) : id2label[j] # label) - 1

\* Mutant of Resolve: a text that is not in the table becomes index 0
ResolveWithDefault(x, table, id2label) ==
    IF ~IsStr(x) THEN [exc |-> NoError, value |-> x]
    ELSE IF Lower(x.s) \notin DOMAIN table THEN [exc |-> NoError, value |-> Num(0)]
    ELSE [exc |-> NoError, value |-> Num(Index(id2label, table[Lower(x.s)]))]

\* id2label.index(prompt_label_to_label_mapping[pred.lower()])
\*     if isinstance(pred, str) else pred
Resolve(x, table, id2label) ==
    IF ~IsStr(x) THEN [exc |-> NoError, value |-> x]
    ELSE IF Lower(x.s) \notin DOMAIN table THEN [exc |-> "KeyError", value |-> x]
    ELSE IF \A i \in DOMAIN id2label : id2label[i] # table[Lower(x.s)]
    THEN [exc |-> "ValueError", value |-> x]
    ELSE [exc |-> NoError, value |-> Num(Index(id2label, table[Lower(x.s)]))]

\* the list comprehension over predictions or labels: the first element that
\* raises ends it
ResolveAll(xs, table, id2label) ==
    LET r == [i \in DOMAIN xs |-> Resolve(xs[i], table, id2label)]
        bad == {i \in DOMAIN xs : r[i].exc # NoError}
    IN  IF bad = {} THEN [exc |-> NoError, values |-> [i \in DOMAIN xs |-> r[i].value]]
        ELSE [exc |-> r[CHOOSE i \in bad : \A j \in bad : i <= j].exc, values |-> <<>>]

\* metric.compute(predictions=..., references=..., **cfg.compute_kwargs): a
\* metric returns a score dict with its keys, returns None, or raises; a score
\* is decided by its key and by how many predictions equal their reference
Agreeing(predictions, references) ==
    Cardinality({i \in DOMAIN predictions \cap DOMAIN references :
                    predictions[i] = references[i]})

\* a metric is [loaded, returns, keys]; one that was not loaded is the object None
MetricCompute(metric, predictions, references) ==
    IF ~metric.loaded THEN [exc |-> "AttributeError", is_none |-> TRUE, score_dict |-> <<>>]
    ELSE IF metric.returns = "raise"
    THEN [exc |-> "ValueError", is_none |-> TRUE, score_dict |-> <<>>]
    ELSE IF metric.returns = "none"
    THEN [exc |-> NoError, is_none |-> TRUE, score_dict |-> <<>>]
    ELSE [exc |-> NoError, is_none |-> FALSE,
          score_dict |-> [k \in metric.keys |-> <<k, Agreeing(predictions, references)>>]]

\* self._metrics, lines 66-74: evaluate.load(path=huggingface_id) for every
\* configuration with a huggingface_id, None for the others; of two
\* configurations with one name the later one stays
Metrics(metric_cfgs, evaluate) ==
    [name \in {metric_cfgs[i].name : i \in DOMAIN metric_cfgs} |->
        LET cfg == metric_cfgs[CHOOSE i \in DOMAIN metric_cfgs :
                                  /\ metric_cfgs[i].name = name
                                  /\ \A j \in DOMAIN metric_cfgs :
                                        j > i => metric_cfgs[j].name # name]
        IN  IF cfg.huggingface_id # ""
            THEN [loaded |-> TRUE, returns |-> evaluate[cfg.huggingface_id].returns,
                  keys |-> evaluate[cfg.huggingface_id].keys]
            ELSE [loaded |-> FALSE, returns |-> "none", keys |-> {}]]

\* results[name] = value
Put(results, name, value) ==
    [k \in DOMAIN results \cup {name} |-> IF k = name THEN value ELSE results[k]]

\* Mutant of AddResult: a metric without a result gets an entry too
AddResultAlways(results, cfg, out) ==
    Put(results, cfg.name,
        IF out.is_none THEN <<cfg.results_key, 0>> ELSE out.score_dict[cfg.results_key])

\* if score_dict is not None: results[cfg.name] = score_dict[cfg.results_key]
AddResult(results, cfg, out) ==
    IF out.is_none THEN results
    ELSE Put(results, cfg.name, out.score_dict[cfg.results_key])

\* the variables of the call of benchmark
pipeline == <<benchmark_config, dataset_config, env, pc, error, model_config, model,
              metadata_dict, num_iter, train, val, test, tests, prepared_train,
              prepared_val, prepared_tests, itr_idx, selected, preprocess_params,
              random_state, itr, calls, previous, loading>>

\* the call _compute_metrics(model_outputs_and_labels, id2label) at its first line
ComputeCall(model_outputs, labels, id2label) ==
    [pc |-> "predictions", model_outputs_and_labels |-> <<model_outputs, labels>>,
     id2label |-> id2label, predictions |-> <<>>, labels |-> <<>>,
     results |-> <<>>, exc |-> NoError, raised_in |-> None, i |-> 0]

\* an exception leaves the call; step is the statement that raised it
ComputeRaise(exc, step) ==
    compute' = [compute EXCEPT !.pc = "raised", !.exc = exc, !.raised_in = step]

\* lines 620-626
ComputePredictions ==
    /\ compute.pc = "predictions"
    /\ LET r == Predictions(compute.model_outputs_and_labels[1])
       IN  IF r.exc # NoError THEN ComputeRaise(r.exc, "predictions")
           ELSE compute' = [compute EXCEPT !.pc = "map_predictions",
                                           !.predictions = r.predictions,
                                           !.labels = compute.model_outputs_and_labels[2]]
    /\ UNCHANGED pipeline

\* lines 628-637
MapPredictions ==
    /\ compute.pc = "map_predictions"
    /\ LET table == PromptLabelToLabelMapping(dataset_config.prompt_label_mapping)
           r == ResolveAll(compute.predictions, table, compute.id2label)
       IN  IF r.exc # NoError THEN ComputeRaise(r.exc, "map_predictions")
           ELSE compute' = [compute EXCEPT !.pc = "map_labels", !.predictions = r.values]
    /\ UNCHANGED pipeline

\* lines 639-644
MapLabels ==
    /\ compute.pc = "map_labels"
    /\ LET table == PromptLabelToLabelMapping(dataset_config.prompt_label_mapping)
           r == ResolveAll(compute.labels, table, compute.id2label)
       IN  IF r.exc # NoError THEN ComputeRaise(r.exc, "map_labels")
           ELSE compute' = [compute EXCEPT !.pc = "metrics", !.labels = r.values]
    /\ UNCHANGED pipeline

\* lines 647-656: one round of the loop over the metric configurations
ComputeMetric ==
    /\ compute.pc = "metrics"
    /\ compute.i < Len(dataset_config.task.metrics)
    /\ LET cfg == dataset_config.task.metrics[compute.i + 1]
           metric == Metrics(dataset_config.task.metrics, env.evaluate)[cfg.name]
           out == MetricCompute(metric, compute.predictions, compute.labels)
       IN  IF out.exc # NoError THEN ComputeRaise(out.exc, "metrics")
           ELSE IF ~out.is_none /\ cfg.results_key \notin DOMAIN out.score_dict
           THEN ComputeRaise("KeyError", "metrics")
           ELSE compute' = [compute EXCEPT !.i = compute.i + 1,
                                           !.results = AddResult(compute.results, cfg, out)]
    /\ UNCHANGED pipeline

\* line 657
ReturnResults ==
    /\ compute.pc = "metrics"
    /\ compute.i = Len(dataset_config.task.metrics)
    /\ compute' = [compute EXCEPT !.pc = "returned"]
    /\ UNCHANGED pipeline

NextMetrics ==
    \/ ComputePredictions
    \/ MapPredictions
    \/ MapLabels
    \/ ComputeMetric
    \/ ReturnResults


(* Calls of _compute_metrics: textual and numeric predictions and labels,    *)
(* score vectors of every float type, tables with lower-case and with        *)
(* capitalised prompt labels, metrics that return, return nothing or raise.  *)

MetricConfig(name, results_key, huggingface_id) ==
    [name |-> name, results_key |-> results_key, huggingface_id |-> huggingface_id]

\* what evaluate.load gives for a huggingface_id: how its compute answers
MetricAnswers ==
    { [returns |-> "dict", keys |-> {"mcc", "f1"}], [returns |-> "dict", keys |-> {"other"}],
      [returns |-> "none", keys |-> {}], [returns |-> "raise", keys |-> {}] }

MetricLists ==
    { <<>>, <<MetricConfig("mcc", "mcc", "matthews_correlation")>>,
      <<MetricConfig("mcc", "mcc", "matthews_correlation"), MetricConfig("macro_f1", "f1", "f1")>>,
      <<MetricConfig("macro_f1", "f1", "f1"), MetricConfig("mcc", "mcc", "")>> }

\* prompt_label_mapping with lower-case prompt labels, and with a capitalised one
LowerTable ==
    <<<<"negative", "negativ">>, <<"neutral", "neutral">>, <<"positive", "positiv">>>>

CapitalTable == <<<<"negative", "negativ">>, <<"positive", "Positiv">>>>

\* prompt_label_mapping and id2label of a call
LabelConfigs ==
    { <<LowerTable, <<"negative", "neutral", "positive">>>>,
      <<LowerTable, <<"positive", "negative", "neutral">>>>,
      <<CapitalTable, <<"negative", "neutral", "positive">>>> }

\* model outputs that are no scores: np.asarray gives them an integer type when
\* all are numbers and a string type otherwise
Values(data) ==
    [dtype |-> IF \A i \in DOMAIN data : ~IsStr(data[i]) THEN "int64" ELSE "str",
     ndim |-> 1, data |-> data]

Scores(dtype, data) == [dtype |-> dtype, ndim |-> 2, data |-> data]

\* np.asarray([]) is a float64 array of shape (0,)
EmptyList == [dtype |-> "float64", ndim |-> 1, data |-> <<>>]

TextCalls ==
    UNION { { ComputeCall(Values(preds), labels, <<>>) :
                preds \in [1..n -> {Str("POSITIV"), Str("negativ"), Str("maybe"), Num(2)}],
                labels \in [1..n -> {Str("positiv"), Str("maybe"), Num(0)}] } :
            n \in 1..MaxBatch }

ScoreCalls ==
    UNION { { ComputeCall(Scores(dtype, scores), labels, <<>>) :
                dtype \in FloatDTypes, scores \in [1..n -> [1..3 -> 0..1]],
                labels \in [1..n -> {Str("positiv"), Num(1)}] } :
            n \in 0..MaxBatch }

MetricsScenario(call, lc, metric_cfgs, evaluate) ==
    [dataset_config |-> [task |-> [name |-> "sentiment-classification",
                                   supertask |-> "sequence-classification",
                                   labels |-> lc[2], metrics |-> metric_cfgs],
                         num_few_shot_examples |-> 0, prompt_label_mapping |-> lc[1]],
     env |-> ("evaluate" :> evaluate) @@ BaseEnv,
     compute |-> [call EXCEPT !.id2label = lc[2]]]

MetricsScenarios ==
    { MetricsScenario(call, lc, <<MetricConfig("mcc", "mcc", "matthews_correlation")>>,
                      [id \in {"matthews_correlation"} |->
                          [returns |-> "dict", keys |-> {"mcc"}]]) :
        call \in TextCalls \cup {ComputeCall(EmptyList, <<>>, <<>>)}, lc \in LabelConfigs }
    \cup
    { MetricsScenario(call, <<LowerTable, <<"negative", "neutral", "positive">>>>,
                      <<MetricConfig("mcc", "mcc", "matthews_correlation")>>,
                      [id \in {"matthews_correlation"} |->
                          [returns |-> "dict", keys |-> {"mcc"}]]) :
        call \in ScoreCalls }
    \cup
    { MetricsScenario(ComputeCall(Values(<<Str("Positiv"), Num(0)>>),
                                  <<Num(2), Str("negativ")>>, <<>>),
                      <<LowerTable, <<"negative", "neutral", "positive">>>>,
                      metric_cfgs, evaluate) :
        metric_cfgs \in MetricLists,
        evaluate \in [{"matthews_correlation", "f1"} -> MetricAnswers] }

InitMetrics ==
    /\ \E s \in MetricsScenarios :
          /\ dataset_config = s.dataset_config
          /\ env = s.env
          /\ compute = s.compute
    /\ benchmark_config = [testing |-> FALSE]
    /\ random_state = 0
    /\ pc = "model_exists"
    /\ error = NoError
    /\ model_config = Unbound
    /\ model = Unbound
    /\ metadata_dict = Unbound
    /\ num_iter = 0
    /\ train = NoSplit /\ val = NoSplit /\ test = NoSplit
    /\ tests = <<>>
    /\ prepared_train = NotPrepared /\ prepared_val = NotPrepared /\ prepared_tests = <<>>
    /\ itr_idx = 0
    /\ selected = <<>>
    /\ preprocess_params = Unbound
    /\ itr = <<>>
    /\ calls = <<>>
    /\ previous = NoPrevious
    /\ loading = NotLoading

SpecMetrics == InitMetrics /\ [][NextMetrics]_vars

(* Metadata: models and tokenizers with every choice of the attributes that  *)
(* _get_metadata reads.                                                      *)

\* an object with the attributes attrs; attribute a of the object named owner
\* has a value that tells the owner and the attribute
Attributes(owner, attrs) ==
    [a \in attrs |-> (IF owner = "config" THEN 100 ELSE 200)
                     + (CASE a = "num_params" -> 1 [] a = "model_max_length" -> 2
                          [] OTHER -> 3)]

MetadataModels ==
    { [generative |-> gen, is_pretrained |-> pre, trainable_params |-> 300,
       config |-> Attributes("config", attrs)] :
        gen \in BOOLEAN, pre \in BOOLEAN,
        attrs \in SUBSET {"num_params", "model_max_length", "vocab_size"} }

MetadataTokenizers ==
    { Attributes("tokenizer", attrs) : attrs \in SUBSET {"model_max_length", "vocab_size"} }

MetadataScenarios ==
    { Scenario(FALSE, task, 1, [BaseEnv EXCEPT !.model = mdl, !.tokenizer = tok], 0) :
        task \in {SentimentTask, SpeedTask}, mdl \in MetadataModels,
        tok \in MetadataTokenizers }

InitMetadata == InitOf(CoreScenarios \cup MetadataScenarios)

SpecMetadata == InitMetadata /\ [][Next]_vars

(* Prepared data: value errors of the preprocessing of each split, and train *)
(* splits that lack a label or are shorter than the number of examples.      *)

PreparedTrains ==
    { <<SentimentTask, TrainOfKinds(<<1, 2>>)>>,
      <<SentimentTask, TrainOfKinds(<<1, 3, 6>>)>>,
      <<QaTask, MkSplit("train", 1, {"text"}, {})>>,
      <<QaTask, MkSplit("train", MaxTrain, {"text"}, {})>> }

PreparedScenarios ==
    { Scenario(FALSE, tt[1], k,
               [GenerativeEnv(tag, tt[2], 0) EXCEPT !.preprocess_raises = stage], 0) :
        tt \in PreparedTrains, k \in 1..2, tag \in {"text-generation", "fill-mask"},
        stage \in {"none", "train", "val", "test"} }

InitPrepared == InitOf(CoreScenarios \cup PreparedScenarios)

SpecPrepared == InitPrepared /\ [][Next]_vars

(* Model loading: every answer of the three collaborators of load_model, in  *)
(* every round of its loop.                                                  *)

ConfigAnswers ==
    { Returns, Raises("KeyError", "other"), Raises("OSError", "from_flax"),
      Raises("OSError", "other"), Raises("ValueError", "trust_remote_code"),
      Raises("JSONDecodeError", "other") }

WeightsAnswers ==
    { Returns, Raises("KeyError", "other"), Raises("OSError", "from_flax"),
      Raises("OSError", "checkpoint"), Raises("ValueError", "trust_remote_code"),
      Raises("RuntimeError", "other") }

TokenizerAnswers ==
    { Returns, Raises("JSONDecodeError", "other"), Raises("OSError", "other"),
      Raises("ValueError", "trust_remote_code"), Raises("KeyError", "other") }

LoadScenarios ==
    { Scenario(FALSE, task, 1,
               [BaseEnv EXCEPT !.listing = Listing(tags, "fill-mask"),
                               !.model = Model(gen),
                               !.config_answers = ConfigAnswers,
                               !.model_class_found = found,
                               !.weights_answers = WeightsAnswers,
                               !.tokenizer_answers = TokenizerAnswers], 0) :
        task \in {SentimentTask, SpeedTask}, tags \in {{"pytorch"}, {"jax"}},
        gen \in BOOLEAN, found \in BOOLEAN }

InitLoad == InitOf(CoreScenarios \cup LoadScenarios)

SpecLoad == InitLoad /\ [][Next]_vars

\* every collaborator call returns, and load_model goes on with its next
\* statement
SpecLoadFair == SpecLoad /\ WF_<<pc, loading>>(Next)

-----------------------------------------------------------------------------
(* Properties *)

Strategies == {"benchmark_speed", "generate", "finetune"}

DataCalls == {"load_data", "preprocess_train", "preprocess_val", "preprocess_test"}

\* the calls of evaluation strategies made so far, in order
StrategyCalls == SelectSeq(calls, LAMBDA c : c \in Strategies)

LastCall == IF calls = <<>> THEN None ELSE calls[Len(calls)]

Ended == pc \in {"done", "failed"}

\* the strategy the claim names for the task and the model of this call
ClaimedStrategy ==
    IF dataset_config.task.name = "speed" THEN "benchmark_speed"
    ELSE IF env.model.generative THEN "generate"
    ELSE "finetune"

\* C3 as stated: every call of benchmark, once it has ended, has invoked exactly
\* one evaluation strategy, exactly once, and it is the one the task and the
\* model call for.
C3_EveryCallInvokesOne == Ended => StrategyCalls = <<ClaimedStrategy>>

\* C3 as amended: no call invokes more than one strategy or one more than once;
\* a strategy that is invoked is the speed probe for the speed task (generative
\* model or not), else generation for a generative model, else finetuning; a
\* call that returns has invoked it, and a call that raises has invoked none.
C3_ReturningCallInvokesOne ==
    /\ Len(StrategyCalls) <= 1
    /\ StrategyCalls # <<>> => StrategyCalls = <<ClaimedStrategy>>
    /\ pc = "done" => StrategyCalls = <<ClaimedStrategy>>
    /\ pc = "failed" => StrategyCalls = <<>>

\* C3's case: a speed task with a generative model has returned from the speed probe
C3_Witness ==
    /\ pc = "done"
    /\ dataset_config.task.name = "speed"
    /\ env.model.generative
    /\ StrategyCalls = <<"benchmark_speed">>

\* the calls made before the first strategy call
BeforeStrategy ==
    IF \E j \in DOMAIN calls : calls[j] \in Strategies
    THEN SubSeq(calls, 1, (CHOOSE j \in DOMAIN calls :
                              /\ calls[j] \in Strategies
                              /\ \A i \in 1..(j - 1) : calls[i] \notin Strategies) - 1)
    ELSE calls

Count(s, c) == Cardinality({j \in DOMAIN s : s[j] = c})

\* C4: a call for the speed task never loads or preprocesses data, before or
\* after the speed probe; a call for any other task has, when its strategy
\* starts, loaded the data once and preprocessed the train split, the validation
\* split and every one of the num_iter test splits.
C4_DataBeforeStrategy ==
    /\ dataset_config.task.name = "speed" => \A j \in DOMAIN calls : calls[j] \notin DataCalls
    /\ (dataset_config.task.name # "speed" /\ StrategyCalls # <<>>) =>
          /\ \A c \in {"load_data", "preprocess_train", "preprocess_val"} :
                Count(BeforeStrategy, c) = 1
          /\ Count(BeforeStrategy, "preprocess_test") = Len(tests)
          /\ Len(tests) = IF benchmark_config.testing THEN 5 ELSE 10
          /\ Len(prepared_tests) = Len(tests)
          /\ prepared_train.split = "train" /\ prepared_val.split = "val"
          /\ \A j \in DOMAIN calls : calls[j] \in DataCalls => j <= Len(BeforeStrategy)

\* C4's case: a generative evaluation has started after ten test splits were prepared
C4_Witness ==
    /\ StrategyCalls = <<"generate">>
    /\ Count(calls, "preprocess_test") = 10
    /\ pc = "done"

\* the error the claim names for a failed fetch from the hub
ClaimedHubError == IF env.internet THEN "HuggingFaceHubDown" ELSE "NoInternetConnection"

ConnectivityErrors == {"HfHubHTTPError", "ConnectionError"}

LoadReturned ==
    /\ \E j \in DOMAIN calls : calls[j] = "load_data"
    /\ ~(pc = "failed" /\ LastCall = "load_data")

\* _load_data has just ended, by returning or by raising
LoadEnded == LastCall = "load_data"

\* the rows of a split whose primary text field (the first of tokens, doc, text
\* that the split carries) is not of length zero
WithoutEmpty(ds) ==
    IF ds.features \cap {"tokens", "doc", "text"} = {} THEN ds.rows
    ELSE SelectSeq(ds.rows, LAMBDA x : x.v[PrimaryFeature(ds.features)] > 0)

FirstRows(rows, n) == SubSeq(rows, 1, IF Len(rows) < n THEN Len(rows) ELSE n)

\* the test split of the fetched dataset after empty-example filtering and, in
\* testing mode, truncation to its first 128 rows
ClaimedTestRows ==
    IF benchmark_config.testing
    THEN FirstRows(WithoutEmpty(env.dataset.splits["test"]), 128)
    ELSE WithoutEmpty(env.dataset.splits["test"])

\* C1 as stated: _load_data returns exactly num_iter bootstrapped test splits, each
\* with as many examples as the test split has after filtering and truncation.
C1_BootstrapCountAndSize ==
    LoadReturned =>
        /\ Len(tests) = num_iter
        /\ \A i \in DOMAIN tests : Len(tests[i].rows) = Len(ClaimedTestRows)

\* C2 as stated: every example of every bootstrapped test split is an example of
\* the fetched test split after filtering and truncation, none of train or val.
C2_BootstrapFromTestSplit ==
    LoadReturned =>
        \A i \in DOMAIN tests : \A j \in DOMAIN tests[i].rows :
            /\ tests[i].rows[j].src = "test"
            /\ \E k \in DOMAIN ClaimedTestRows : ClaimedTestRows[k] = tests[i].rows[j]

\* C5 as stated: the split that is bootstrapped is the test split, cut to its first
\* 128 examples in testing mode and whole otherwise; the call runs 5 iterations in
\* testing mode and 10 otherwise; the strategy gets an iterator as long as tests.
C5_TruncationAndIterations ==
    /\ LoadReturned =>
          /\ test.rows = ClaimedTestRows
          /\ num_iter = IF benchmark_config.testing THEN 5 ELSE 10
          /\ Len(tests) = num_iter
    /\ StrategyCalls # <<>> =>
          /\ Len(itr) = IF benchmark_config.testing THEN 5 ELSE 10
          /\ LoadReturned => Len(tests) = Len(itr)

\* C6 as stated: no example of the returned train split, validation split or
\* bootstrapped test splits has a primary text field of length zero.
C6_NoEmptyExample ==
    LoadReturned =>
        /\ train.rows = WithoutEmpty(train)
        /\ val.rows = WithoutEmpty(val)
        /\ \A i \in DOMAIN tests : tests[i].rows = WithoutEmpty(tests[i])

\* the fetch answered a DatasetDict
FetchedDict == env.dataset.kind = "DatasetDict"

SplitNames == IF FetchedDict THEN DOMAIN env.dataset.splits ELSE {}

SequenceClassification == dataset_config.task.supertask = "sequence-classification"

NoRowTwice(rows) == \A i, j \in DOMAIN rows : i # j => rows[i].idx # rows[j].idx

\* how many of rows carry the label, whatever its case
WithLabel(rows, label) ==
    Cardinality({ j \in DOMAIN rows : Lower(rows[j].label) = Lower(label) })

\* C9: for a sequence-classification dataset the j-th example selected is a train
\* example of the j-th label of the cycle through the task's labels and was not
\* selected before; every few-shot list handed to preprocessing has
\* num_few_shot_examples examples, none of them twice, and when that number is
\* the number of labels it has exactly one example of each label.
C9_LabelCycleNoReuse ==
    SequenceClassification =>
        /\ \A j \in DOMAIN selected :
              /\ Lower(selected[j].label) = Lower(Cycle(dataset_config.task.labels, j - 1))
              /\ \E r \in DOMAIN train.rows : train.rows[r] = selected[j]
        /\ NoRowTwice(selected)
        /\ \A k \in DOMAIN prepared_tests :
              prepared_tests[k].has_few_shot =>
                  LET few == prepared_tests[k].few_shot_examples
                      labels == dataset_config.task.labels
                  IN  /\ Len(few) = dataset_config.num_few_shot_examples
                      /\ NoRowTwice(few)
                      /\ Len(few) = Len(labels) =>
                            \A l \in DOMAIN labels : WithLabel(few, labels[l]) = 1

\* C9's case: three labels and three few-shot examples, selected for every one
\* of the ten test splits
C9_Witness ==
    /\ SequenceClassification
    /\ Len(dataset_config.task.labels) = 3
    /\ dataset_config.num_few_shot_examples = 3
    /\ pc = "done"
    /\ Len(prepared_tests) = NumIterFull
    /\ \A k \in DOMAIN prepared_tests :
          prepared_tests[k].has_few_shot /\ Len(prepared_tests[k].few_shot_examples) = 3

\* C10: a second call on the same train split and dataset configuration hands
\* to preprocessing, for every test iteration i, the few-shot list the first call
\* handed over for i, in the same order, and prepares as many test splits,
\* whatever state the global generator is in when the call starts.
C10_SameListOnRerun ==
    previous.ran =>
        /\ \A i \in DOMAIN prepared_tests :
              /\ i \in DOMAIN previous.prepared_tests
              /\ prepared_tests[i].has_few_shot = previous.prepared_tests[i].has_few_shot
              /\ prepared_tests[i].few_shot_examples
                    = previous.prepared_tests[i].few_shot_examples
        /\ pc \in {"done", "failed"} => Len(prepared_tests) = Len(previous.prepared_tests)

\* C10's case: the second call has ended after lists of two or more examples that
\* differ between iterations
C10_Witness ==
    /\ previous.ran
    /\ pc = "done"
    /\ Len(prepared_tests) = NumIterFull
    /\ \A i \in DOMAIN prepared_tests :
          prepared_tests[i].has_few_shot /\ Len(prepared_tests[i].few_shot_examples) >= 2
    /\ \E i, j \in DOMAIN prepared_tests :
          prepared_tests[i].few_shot_examples # prepared_tests[j].few_shot_examples

\* the few-shot list that iteration i builds from the whole train split tr
BuiltIn(i, tr) ==
    LET seed == BaseSeed + i
        built == SelectFewShot(DatasetShuffle(tr, seed, env.salt), dataset_config)
    IN  [exc |-> built.exc,
         examples |-> RandomShuffle(RandomSeed(0, seed), built.examples, env.salt)]

\* C11: while the test splits are prepared the train split stays the one
\* _load_data returned, and the few-shot list handed to the preprocessing of test
\* split i is the list iteration i builds from that whole train split: examples an
\* earlier iteration removed from its pool are in the pool again, and no list of
\* an earlier iteration is handed over.
C11_IterationsIndependent ==
    prepared_tests # <<>> =>
        /\ train = LoadDataResult(env.dataset, benchmark_config.testing,
                                  num_iter, env.rng).train
        /\ \A k \in DOMAIN prepared_tests :
              prepared_tests[k].has_few_shot =>
                  /\ BuiltIn(k - 1, train).exc = NoError
                  /\ prepared_tests[k].few_shot_examples = BuiltIn(k - 1, train).examples

\* C11's case: the train split has just the examples one few-shot list needs, all
\* ten iterations got their list, and two iterations in a row got different lists
\* of the same examples
C11_Witness ==
    /\ pc = "done"
    /\ Len(prepared_tests) = NumIterFull
    /\ dataset_config.num_few_shot_examples >= 2
    /\ Len(train.rows) = dataset_config.num_few_shot_examples
    /\ \A k \in DOMAIN prepared_tests :
          /\ prepared_tests[k].has_few_shot
          /\ Len(prepared_tests[k].few_shot_examples) = Len(train.rows)
    /\ \E k \in 1..(Len(prepared_tests) - 1) :
          prepared_tests[k].few_shot_examples # prepared_tests[k + 1].few_shot_examples

\* the model outputs and the labels a call of _compute_metrics was given
GivenOutputs == compute.model_outputs_and_labels[1]

GivenLabels == compute.model_outputs_and_labels[2]

ScoreVectors == GivenOutputs.dtype \in {"float16", "float32", "float64"} /\ GivenOutputs.ndim = 2

\* C12: when the model outputs are score vectors of a float type, the prediction
\* of every example is a number, the first index (from 0) at which the example's
\* vector has its maximum, hence one of 0, 1, 2 for vectors of three scores, and
\* stays so to the end of the call; outputs of any other type are the predictions
\* as they are.
C12_ArgMaxOrUnchanged ==
    /\ (compute.pc \in {"map_predictions", "map_labels", "metrics", "returned"}
            /\ ScoreVectors) =>
          /\ Len(compute.predictions) = Len(GivenOutputs.data)
          /\ \A e \in DOMAIN compute.predictions :
                LET pred == compute.predictions[e]
                    v == GivenOutputs.data[e]
                IN  /\ ~IsStr(pred)
                    /\ pred.n \in 0..2
                    /\ \A j \in DOMAIN v : v[j] <= v[pred.n + 1]
                    /\ \A j \in 1..pred.n : v[j] < v[pred.n + 1]
    /\ (compute.pc = "map_predictions" /\ ~ScoreVectors) =>
          compute.predictions = GivenOutputs.data

\* C12's case: a call with float32 scores of two examples has returned; the first
\* example has its maximum at indices 0 and 2, the second at index 2 only
C12_Witness ==
    /\ compute.pc = "returned"
    /\ GivenOutputs.dtype = "float32"
    /\ GivenOutputs.data = <<<<1, 0, 1>>, <<0, 0, 1>>>>
    /\ compute.predictions = <<Num(0), Num(2)>>

\* the items of the prompt label table whose prompt label is the text x in some
\* letter case
ItemsFor(x) ==
    { k \in DOMAIN dataset_config.prompt_label_mapping :
        Lower(dataset_config.prompt_label_mapping[k][2]) = Lower(x.s) }

\* every text among xs is a prompt label in some letter case
AllPromptLabels(xs) == \A e \in DOMAIN xs : IsStr(xs[e]) => ItemsFor(xs[e]) # {}

\* the position in id2label of the canonical label whose prompt label x is
ClaimedIndex(x) ==
    LET label == dataset_config.prompt_label_mapping[CHOOSE k \in ItemsFor(x) : TRUE][1]
    IN  CHOOSE n \in 0..(Len(compute.id2label) - 1) : compute.id2label[n + 1] = label

\* xs with every text replaced by the index of its canonical label
ClaimedResolution(xs) ==
    [e \in DOMAIN xs |-> IF IsStr(xs[e]) THEN Num(ClaimedIndex(xs[e])) ELSE xs[e]]

\* C13 as stated: in a call whose textual predictions and labels are all prompt
\* labels of the table in some letter case, no lookup fails, every textual
\* prediction and label is resolved to the id2label index of its canonical label,
\* and every numeric one stays as it is.
C13_TextResolvesToLabelIndex ==
    (AllPromptLabels(GivenLabels) /\ (ScoreVectors \/ AllPromptLabels(GivenOutputs.data))) =>
        /\ compute.pc = "raised" => compute.raised_in \notin {"map_predictions", "map_labels"}
        /\ (compute.pc \in {"map_labels", "metrics", "returned"} /\ ~ScoreVectors) =>
              compute.predictions = ClaimedResolution(GivenOutputs.data)
        /\ compute.pc \in {"metrics", "returned"} =>
              compute.labels = ClaimedResolution(GivenLabels)

\* C13 where the table has only lower-case prompt labels
C13_LowerCaseTable ==
    (\A k \in DOMAIN dataset_config.prompt_label_mapping :
        Lower(dataset_config.prompt_label_mapping[k][2])
            = dataset_config.prompt_label_mapping[k][2])
        => C13_TextResolvesToLabelIndex

\* some text among xs is, lower-cased, no prompt label of the table
UnknownText(xs) ==
    \E e \in DOMAIN xs :
        /\ IsStr(xs[e])
        /\ \A k \in DOMAIN dataset_config.prompt_label_mapping :
              dataset_config.prompt_label_mapping[k][2] # Lower(xs[e].s)

\* C14: a call in which a textual prediction or a textual label is, lower-cased,
\* no prompt label of the table never reaches the metrics and never returns; it
\* holds no score, and when it has ended it has raised KeyError from the lookup of
\* a prediction or of a label.
C14_UnknownTextRaises ==
    (UnknownText(GivenLabels) \/ (~ScoreVectors /\ UnknownText(GivenOutputs.data))) =>
        /\ compute.pc \notin {"metrics", "returned"}
        /\ DOMAIN compute.results = {}
        /\ compute.pc = "raised" =>
              /\ compute.exc = "KeyError"
              /\ compute.raised_in \in {"map_predictions", "map_labels"}

\* C14's case: the predictions were all resolved, and the call raised on a label
\* that is no prompt label
C14_Witness ==
    /\ compute.pc = "raised"
    /\ compute.exc = "KeyError"
    /\ compute.raised_in = "map_labels"
    /\ ~UnknownText(GivenOutputs.data)
    /\ \E e \in DOMAIN GivenOutputs.data : IsStr(GivenOutputs.data[e])
    /\ \E e \in DOMAIN GivenLabels : GivenLabels[e] = Str("maybe")

\* the configured metrics whose computation returns a result
WithResult ==
    { m \in DOMAIN dataset_config.task.metrics :
        /\ dataset_config.task.metrics[m].huggingface_id # ""
        /\ env.evaluate[dataset_config.task.metrics[m].huggingface_id].returns = "dict" }

\* C15: the result of a call that returns has exactly the names of the configured
\* metrics whose computation returned a result as its keys, and under each name
\* the value the metric's score dict has under the metric's results key; before
\* that, results never holds another key.
C15_OneEntryPerResult ==
    /\ compute.pc = "returned" =>
          /\ DOMAIN compute.results
                = { dataset_config.task.metrics[m].name : m \in WithResult }
          /\ \A m \in WithResult :
                compute.results[dataset_config.task.metrics[m].name]
                    = <<dataset_config.task.metrics[m].results_key,
                        Agreeing(compute.predictions, compute.labels)>>
    /\ compute.pc \in {"metrics", "raised"} =>
          DOMAIN compute.results
              \subseteq { dataset_config.task.metrics[m].name : m \in WithResult }

\* C15's case: of two configured metrics the first returned no result and the
\* second a score dict with more keys than its results key
C15_Witness ==
    /\ compute.pc = "returned"
    /\ Len(dataset_config.task.metrics) = 2
    /\ env.evaluate["matthews_correlation"].returns = "none"
    /\ env.evaluate["f1"].keys = {"mcc", "f1"}
    /\ DOMAIN compute.results = {"macro_f1"}
    /\ compute.results["macro_f1"] = <<"f1", 2>>

\* C16: the metadata of a call of benchmark that has returned has exactly the
\* three keys; each value is the attribute of the model configuration when it
\* has it, otherwise the number of trainable parameters of a pretrained model
\* (for the parameter count) or the attribute of the tokenizer (for length and
\* vocabulary), and it is -1 exactly when neither source has it.
C16_MetadataKeysAndSources ==
    pc = "done" =>
        LET config == env.model.config
            tok == env.tokenizer
        IN  /\ DOMAIN metadata_dict
                  = {"num_model_parameters", "max_sequence_length", "vocabulary_size"}
            /\ "num_params" \in DOMAIN config =>
                  metadata_dict.num_model_parameters = config["num_params"]
            /\ ("num_params" \notin DOMAIN config /\ env.model.is_pretrained) =>
                  metadata_dict.num_model_parameters = env.model.trainable_params
            /\ metadata_dict.num_model_parameters = -1
                  <=> ("num_params" \notin DOMAIN config /\ ~env.model.is_pretrained)
            /\ \A pair \in {<<"max_sequence_length", "model_max_length">>,
                           <<"vocabulary_size", "vocab_size">>} :
                  /\ pair[2] \in DOMAIN config => metadata_dict[pair[1]] = config[pair[2]]
                  /\ (pair[2] \notin DOMAIN config /\ pair[2] \in DOMAIN tok) =>
                        metadata_dict[pair[1]] = tok[pair[2]]
                  /\ metadata_dict[pair[1]] = -1
                        <=> (pair[2] \notin DOMAIN config /\ pair[2] \notin DOMAIN tok)

\* C16's case: a call has returned for a model that is not pretrained and whose
\* configuration has only vocab_size, with a tokenizer that has both attributes
C16_Witness ==
    /\ pc = "done"
    /\ DOMAIN env.model.config = {"vocab_size"}
    /\ ~env.model.is_pretrained
    /\ DOMAIN env.tokenizer = {"model_max_length", "vocab_size"}
    /\ metadata_dict = [num_model_parameters |-> -1, max_sequence_length |-> 202,
                        vocabulary_size |-> 103]

\* the low-level exceptions the claim lists
ListedFailure(exc) ==
    \/ IsInstance(exc, "OSError")
    \/ IsInstance(exc, "ValueError")
    \/ IsInstance(exc, "KeyError")
    \/ IsInstance(exc, "JSONDecodeError")

\* C17 as stated: when load_model has failed with an OSError, ValueError, KeyError
\* or JSON decode error of the loading of the configuration, of the weights or of
\* the tokenizer, the caller gets InvalidBenchmark.
C17_LoadFailuresAreInvalidBenchmark ==
    (pc = "failed" /\ loading.raised.step \in {"config", "weights", "tokenizer"}
        /\ ListedFailure(loading.raised.exc))
        => error = "InvalidBenchmark"

\* C17 for the loop alone: the configuration and the weights
C17_LoopFailuresAreInvalidBenchmark ==
    (pc = "failed" /\ loading.raised.step \in {"config", "weights"}
        /\ ListedFailure(loading.raised.exc))
        => error = "InvalidBenchmark"

InLoop == pc \in {"load_config", "load_weights"}

\* a step that takes the loop of load_model round again
Retry == InLoop /\ pc' = "load_config"

\* C19: the loop of load_model makes at most three attempts; in the loop neither
\* flag goes back to false; a step that goes round again turns exactly one of
\* from_flax and ignore_mismatched_sizes from false to true and leaves the other,
\* so none goes round with both flags set; and a call that is in the loop leaves
\* it, with a model or with an exception.
C19_LoadingLoopTerminates ==
    /\ [](loading.attempts <= 3)
    /\ [][/\ InLoop =>
               /\ loading.from_flax => loading'.from_flax
               /\ loading.ignore_mismatched_sizes => loading'.ignore_mismatched_sizes
          /\ Retry =>
               \/ /\ ~loading.from_flax /\ loading'.from_flax
                  /\ loading'.ignore_mismatched_sizes = loading.ignore_mismatched_sizes
               \/ /\ ~loading.ignore_mismatched_sizes /\ loading'.ignore_mismatched_sizes
                  /\ loading'.from_flax = loading.from_flax
          /\ (InLoop /\ ~Retry /\ pc' # pc) =>
               pc' \in {"load_weights", "load_tokenizer", "failed"}]_<<pc, loading>>
    /\ InLoop ~> ~InLoop

\* C19's case: the model was loaded in the third attempt, after one retry for
\* each flag
C19_Witness ==
    /\ pc = "load_tokenizer"
    /\ loading.attempts = 3
    /\ loading.from_flax /\ loading.ignore_mismatched_sizes
    /\ model_config.framework = "pytorch"

\* _load_prepared_data has raised: the last call of the run is one of its steps
PreparedDataFailed ==
    /\ pc = "failed"
    /\ LastCall \in {"preprocess_train", "preprocess_val", "preprocess_test"}

\* C18 as stated: whenever _load_prepared_data fails, in the preprocessing of a
\* split or in the selection of the few-shot examples, benchmark fails with
\* InvalidBenchmark (and then it has no prepared splits to go on with).
C18_PreparedDataFailuresAreInvalidBenchmark ==
    PreparedDataFailed => error = "InvalidBenchmark"

\* C18 for the value errors of the preprocessing alone, where no few-shot
\* examples are selected
C18_ValueErrorsAreInvalidBenchmark ==
    (PreparedDataFailed /\ ~WantsFewShot(model_config.task))
        => (env.preprocess_raises # "none" /\ error = "InvalidBenchmark")

\* a strategy of a task with data has been dispatched
DataStrategyDispatched == dataset_config.task.name # SPEED /\ StrategyCalls # <<>>

AllWithFewShot == \A k \in DOMAIN prepared_tests : prepared_tests[k].has_few_shot

\* C20 as stated: for a task other than speed, _generate is the strategy that
\* is dispatched if and only if every prepared test split was preprocessed with
\* few-shot examples, whatever the task tag of the model and whether or not the
\* model generates.
C20_StrategyAgreesWithPreprocessing ==
    DataStrategyDispatched => (StrategyCalls = <<"generate">> <=> AllWithFewShot)

\* what each of the two follows: the strategy the loaded model, the
\* preprocessing the task tag of the model configuration
C20_EachFollowsItsOwnTest ==
    DataStrategyDispatched =>
        /\ StrategyCalls = <<"generate">> <=> ModelIsGenerative(model)
        /\ AllWithFewShot <=> WantsFewShot(model_config.task)

=============================================================================
